---- MODULE Spec2Model ----
(***************************************************************************)
(* A model of the on-disk B+Tree of nimrodshn/btree: the BTree algorithms  *)
(* of src/src/btree.rs (insert with preemptive split, search, delete with  *)
(* merge), the node <-> page serialization of src/src/page.rs, the pager   *)
(* and the root log of src/src/wal.rs.                                     *)
(*                                                                         *)
(* Keys and values are byte strings: sequences of bytes 1..255.  A page is *)
(* the record of the fields the layout of src/src/page_layout.rs gives it; *)
(* key and value slots are KEY_SIZE / VALUE_SIZE bytes wide, zero padded.  *)
(* Offsets are byte offsets into the index file, multiples of PAGE_SIZE.   *)
(***************************************************************************)
EXTENDS Integers, Sequences, FiniteSets, TLC

\* ------------------------------------------------------------------------
\* Bounds of the model.

\* With parameter b the keys are the one-byte strings <<1>>..<<2b + MaxExtra>>:
\* 2b keys split the root, MaxExtra more split or fill a child.
MaxExtra == 1

\* An engine performs at most MaxSteps inserts and deletes after a build.
MaxSteps == 8

\* The engine is built at most MaxBuilds times against the same path.
MaxBuilds == 2

\* The b parameter of the general specification ranges over 2..MaxB.
MaxB == 3

\* The default engine is given at most MaxAscending keys.
MaxAscending == 204

\* The deep tree is built with b in 2..MaxDeepB; once loaded it takes at most
\* MaxMixed inserts and deletes, on the MaxTouched highest keys loaded and on
\* one key above them.
MaxDeepB == 3

MaxMixed == 5

MaxTouched == 6

\* The caller stores at most MaxDups pairs under keys it has stored already.
MaxDups == 3

\* The root log takes at most MaxRecords records.
MaxRecords == 3

\* The nodes given to the serialization have at most MaxNodeLen pairs or
\* separators, or as many as a page holds, or one more than that.
MaxNodeLen == 2

\* ------------------------------------------------------------------------
\* Program constants (src/src/page_layout.rs).

PAGE_SIZE == 4096

PTR_SIZE == 8

KEY_SIZE == 10

VALUE_SIZE == 10

LEAF_NODE_HEADER_SIZE == 18

INTERNAL_NODE_HEADER_SIZE == 18

\* The b parameter of BTreeBuilder::default (src/src/btree.rs).
DEFAULT_B == 200

\* ------------------------------------------------------------------------
\* Small helpers.

SetMin(S) == CHOOSE x \in S : \A y \in S : x <= y

\* A let binding: F applied to the value of e, e evaluated once.
Let(e, F(_)) == CHOOSE r \in {F(x) : x \in {e}} : TRUE

\* Option<Offset>.
None == <<>>

Some(x) == <<x>>

\* An insert that overwrites the element at index i when there is one.
VecInsertOverwriting(s, i, x) ==
    IF i < Len(s) THEN [s EXCEPT ![i + 1] = x] ELSE Append(s, x)

\* Vec::insert(i, x) and Vec::remove(i), 0-based; the callers check the bounds.
VecInsert(s, i, x) == SubSeq(s, 1, i) \o <<x>> \o SubSeq(s, i + 1, Len(s))

VecRemove(s, i) == SubSeq(s, 1, i) \o SubSeq(s, i + 2, Len(s))

\* String ordering: byte-wise lexicographic, as Ord for String.
RECURSIVE StrCmpFrom(_, _, _)
StrCmpFrom(a, c, i) ==
    IF i > Len(a) THEN (IF i > Len(c) THEN "Equal" ELSE "Less")
    ELSE IF i > Len(c) THEN "Greater"
    ELSE IF a[i] < c[i] THEN "Less"
    ELSE IF a[i] > c[i] THEN "Greater"
    ELSE StrCmpFrom(a, c, i + 1)

StrCmp(a, c) == StrCmpFrom(a, c, 1)

StrLeq(a, c) == StrCmp(a, c) # "Greater"

StrLess(a, c) == StrCmp(a, c) = "Less"

\* slice::binary_search over a sequence of keys: [found, idx] with idx 0-based,
\* the position of a match or the insertion point.  The loop is the one of the
\* standard library: halve the window, keep the half that can hold the target.
RECURSIVE BinarySearchLoop(_, _, _, _)
BinarySearchLoop(s, target, base, size) ==
    IF size > 1
    THEN LET half == size \div 2
             mid == base + half
         IN  BinarySearchLoop(s, target,
                 IF StrCmp(s[mid + 1], target) = "Greater" THEN base ELSE mid,
                 size - half)
    ELSE LET cmp == StrCmp(s[base + 1], target)
         IN  IF cmp = "Equal" THEN [found |-> TRUE, idx |-> base]
             ELSE [found |-> FALSE, idx |-> base + (IF cmp = "Less" THEN 1 ELSE 0)]

BinarySearch(s, target) ==
    IF Len(s) = 0 THEN [found |-> FALSE, idx |-> 0]
    ELSE BinarySearchLoop(s, target, 0, Len(s))

PairKeys(pairs) == [i \in 1..Len(pairs) |-> pairs[i].key]

\* ------------------------------------------------------------------------
\* Nodes (src/src/node_type.rs) and their pages (src/src/page.rs).

KeyValuePair(k, v) == [key |-> k, value |-> v]

\* Node::new(node_type, is_root, parent_offset)
LeafNode(pairs, is_root, parent_offset) ==
    [node_type |-> "Leaf", children |-> <<>>, keys |-> <<>>, pairs |-> pairs,
     is_root |-> is_root, parent_offset |-> parent_offset]

InternalNode(children, keys, is_root, parent_offset) ==
    [node_type |-> "Internal", children |-> children, keys |-> keys, pairs |-> <<>>,
     is_root |-> is_root, parent_offset |-> parent_offset]

\* A slot that loses the last byte of a string that fills it.
PadDroppingLastByte(s, n) ==
    [i \in 1..n |-> IF i <= Len(s) /\ i < n THEN s[i] ELSE 0]

\* A fixed-width slot: the bytes of s, right padded with zero bytes.
Pad(s, n) == [i \in 1..n |-> IF i <= Len(s) THEN s[i] ELSE 0]

\* str::trim_matches(char::from(0)): leading and trailing zero bytes removed.
RECURSIVE FirstNonZero(_, _)
FirstNonZero(raw, i) ==
    IF i > Len(raw) \/ raw[i] # 0 THEN i ELSE FirstNonZero(raw, i + 1)

RECURSIVE LastNonZero(_, _)
LastNonZero(raw, i) ==
    IF i = 0 \/ raw[i] # 0 THEN i ELSE LastNonZero(raw, i - 1)

Trim(raw) ==
    LET first == FirstNonZero(raw, 1)
    IN  IF first > Len(raw) THEN <<>>
        ELSE SubSeq(raw, first, LastNonZero(raw, Len(raw)))

\* The outcome of writing the pairs of a leaf into the page buffer, in the
\* order the loop of Page::try_from does it: key length check, key slot write,
\* value length check, value slot write.  A slot that ends beyond PAGE_SIZE is
\* a slice index out of range: the thread panics.
LeafEncodeStatus(pairs) ==
    LET Bad(i) ==
            IF Len(pairs[i].key) > KEY_SIZE THEN "KeyOverflowError"
            ELSE IF LEAF_NODE_HEADER_SIZE + (i - 1) * (KEY_SIZE + VALUE_SIZE) + KEY_SIZE
                        > PAGE_SIZE THEN "panic"
            ELSE IF Len(pairs[i].value) > VALUE_SIZE THEN "ValueOverflowError"
            ELSE IF LEAF_NODE_HEADER_SIZE + i * (KEY_SIZE + VALUE_SIZE) > PAGE_SIZE
                 THEN "panic"
            ELSE "ok"
        bads == {i \in 1..Len(pairs) : Bad(i) # "ok"}
    IN  IF bads = {} THEN "ok" ELSE Bad(SetMin(bads))

\* The same for an Internal node: the child offsets first, then the keys.
InternalEncodeStatus(children, keys) ==
    LET keysAt == INTERNAL_NODE_HEADER_SIZE + Len(children) * PTR_SIZE
        Bad(i) ==
            IF Len(keys[i]) > KEY_SIZE THEN "KeyOverflowError"
            ELSE IF keysAt + i * KEY_SIZE > PAGE_SIZE THEN "panic"
            ELSE "ok"
        bads == {i \in 1..Len(keys) : Bad(i) # "ok"}
    IN  IF keysAt > PAGE_SIZE THEN "panic"
        ELSE IF bads = {} THEN "ok" ELSE Bad(SetMin(bads))

\* impl TryFrom<&Node> for Page.  The page is the record of its fields:
\* is_root byte, node_type byte, parent offset (left zero for a root), the
\* count (children or pairs), the child offsets and the padded key and value
\* slots.  Every byte the encoder does not write is zero.
PageOfNode(node) ==
    IF ~node.is_root /\ node.parent_offset = None
    THEN [res |-> "UnexpectedError"]
    ELSE Let(IF node.node_type = "Internal"
             THEN InternalEncodeStatus(node.children, node.keys)
             ELSE LeafEncodeStatus(node.pairs), LAMBDA st :
             IF st # "ok" THEN [res |-> st]
             ELSE [res |-> "ok",
                   page |->
                     [is_root |-> IF node.is_root THEN 1 ELSE 0,
                      node_type |-> IF node.node_type = "Internal" THEN 1 ELSE 2,
                      parent |-> IF node.is_root THEN 0 ELSE node.parent_offset[1],
                      num |-> IF node.node_type = "Internal"
                              THEN Len(node.children) ELSE Len(node.pairs),
                      offsets |-> node.children,
                      keys |-> IF node.node_type = "Internal"
                               THEN [i \in 1..Len(node.keys) |-> Pad(node.keys[i], KEY_SIZE)]
                               ELSE [i \in 1..Len(node.pairs) |->
                                        Pad(node.pairs[i].key, KEY_SIZE)],
                      vals |-> [i \in 1..Len(node.pairs) |->
                                        Pad(node.pairs[i].value, VALUE_SIZE)]]])

\* The key slot i of a page: the written slot, or zero bytes beyond them.
KeySlot(page, i) == IF i <= Len(page.keys) THEN page.keys[i] ELSE Pad(<<>>, KEY_SIZE)

\* Node::try_from(Page): the header, then num children and num - 1 separators
\* (Internal) or num pairs (Leaf); the parent offset is read only when the
\* node is not a root; zero bytes are trimmed from keys and values.
NodeOfPage(page) ==
    IF page.node_type = 1
    THEN [res |-> "ok",
          node |-> InternalNode(
                     page.offsets,
                     [i \in 1..(IF page.num > 0 THEN page.num - 1 ELSE 0) |->
                         Trim(KeySlot(page, i))],
                     page.is_root = 1,
                     IF page.is_root = 1 THEN None ELSE Some(page.parent))]
    ELSE IF page.node_type = 2
    THEN [res |-> "ok",
          node |-> LeafNode(
                     [i \in 1..page.num |->
                         KeyValuePair(Trim(page.keys[i]), Trim(page.vals[i]))],
                     page.is_root = 1,
                     IF page.is_root = 1 THEN None ELSE Some(page.parent))]
    ELSE [res |-> "UnexpectedError"]

\* ------------------------------------------------------------------------
\* The pager: the index file is a sequence of pages, page i at offset
\* (i - 1) * PAGE_SIZE; the append cursor is the end of the file.  An
\* operation threads a disk d = [file, log]: the file as its writes have left
\* it, and the log of those writes, <<offset, page>>, in the order issued.

Disk(file) == [file |-> file, log |-> <<>>]

ValidOffset(file, off) == off % PAGE_SIZE = 0 /\ off \div PAGE_SIZE < Len(file)

PageAt(file, off) == file[off \div PAGE_SIZE + 1]

\* Pager::get_page(offset): a read beyond the end of the file is a short read.
GetPage(d, off) ==
    IF ValidOffset(d.file, off)
    THEN [res |-> "ok", page |-> PageAt(d.file, off)]
    ELSE [res |-> "UnexpectedError"]

\* Pager::write_page(page): append at the cursor and return the offset.
WritePage(d, page) ==
    [file |-> Append(d.file, page),
     log |-> Append(d.log, <<Len(d.file) * PAGE_SIZE, page>>)]

\* Pager::write_page_at_offset(page, offset): overwrite in place.
WritePageAtOffset(d, page, off) ==
    [file |-> [d.file EXCEPT ![off \div PAGE_SIZE + 1] = page],
     log |-> Append(d.log, <<off, page>>)]

\* pager.write_page(Page::try_from(&node)?)?
WriteNode(d, node) ==
    Let(PageOfNode(node), LAMBDA e :
        IF e.res # "ok" THEN [res |-> e.res, d |-> d, off |-> 0]
        ELSE [res |-> "ok", d |-> WritePage(d, e.page), off |-> Len(d.file) * PAGE_SIZE])

\* An overwrite that is issued twice.
WriteNodeAtTwice(d, node, off) ==
    Let(PageOfNode(node), LAMBDA e :
        IF e.res # "ok" THEN [res |-> e.res, d |-> d]
        ELSE [res |-> "ok",
              d |-> WritePageAtOffset(WritePageAtOffset(d, e.page, off), e.page, off)])

\* pager.write_page_at_offset(Page::try_from(&node)?, &offset)?
WriteNodeAt(d, node, off) ==
    Let(PageOfNode(node), LAMBDA e :
        IF e.res # "ok" THEN [res |-> e.res, d |-> d]
        ELSE [res |-> "ok", d |-> WritePageAtOffset(d, e.page, off)])

\* Node::try_from(pager.get_page(&offset)?)?
ReadNode(d, off) ==
    Let(GetPage(d, off), LAMBDA g :
        IF g.res # "ok" THEN [res |-> g.res] ELSE NodeOfPage(g.page))

\* ------------------------------------------------------------------------
\* Node::split(b): the node keeps the left half and the sibling is returned
\* with the median.  Leaf: the node keeps the first b pairs, the sibling takes
\* the rest, the median is the key at index b - 1 (the last key kept).
\* Internal: the sibling takes the children from index b on and the
\* separators after the median, which is the separator at index b - 1.
\* Both halves carry the node's parent_offset; the sibling is not a root.
Split(node, b) ==
    IF node.node_type = "Leaf"
    THEN [res |-> "ok",
          median |-> node.pairs[b].key,
          left |-> [node EXCEPT !.pairs = SubSeq(node.pairs, 1, b)],
          sibling |-> LeafNode(SubSeq(node.pairs, b + 1, Len(node.pairs)),
                               FALSE, node.parent_offset)]
    ELSE [res |-> "ok",
          median |-> node.keys[b],
          left |-> [node EXCEPT !.keys = SubSeq(node.keys, 1, b - 1),
                                !.children = SubSeq(node.children, 1, b)],
          sibling |-> InternalNode(SubSeq(node.children, b + 1, Len(node.children)),
                                   SubSeq(node.keys, b + 1, Len(node.keys)),
                                   FALSE, node.parent_offset)]

\* ------------------------------------------------------------------------
\* BTree (src/src/btree.rs).

IsNodeFull(node, b) ==
    IF node.node_type = "Leaf" THEN Len(node.pairs) = 2 * b - 1
    ELSE Len(node.keys) = 2 * b - 1

IsNodeUnderflow(node, b) ==
    IF node.node_type = "Leaf" THEN Len(node.pairs) < b - 1 /\ ~node.is_root
    ELSE Len(node.keys) < b - 1 /\ ~node.is_root

\* The sibling linked left of the split child.
SplitParentSiblingLeft(node, idx, sibling_offset, median) ==
    [node EXCEPT !.children = VecInsert(node.children, idx, sibling_offset),
                 !.keys = VecInsert(node.keys, idx, median)]

\* insert_non_full after the split of the child at index idx: the sibling is
\* linked right of the child and the median becomes their separator.
SplitParent(node, idx, sibling_offset, median) ==
    [node EXCEPT !.children = VecInsert(node.children, idx + 1, sibling_offset),
                 !.keys = VecInsert(node.keys, idx, median)]

\* A split child whose left half is never written back.
WriteSplitChildSkipped(d, child, child_offset) ==
    [res |-> "ok", d |-> d]

\* insert_non_full: the split child, now the left half, is written back to
\* its page.
WriteSplitChild(d, child, child_offset) ==
    WriteNodeAt(d, child, child_offset)

\* A parent page written over the page of one of its children.
WriteSplitParentOverChild(d, parent, node_offset) ==
    WriteNodeAt(d, parent, parent.children[1])

\* insert_non_full: the parent of a split child is written back to its page.
WriteSplitParent(d, parent, node_offset) ==
    WriteNodeAt(d, parent, node_offset)

\* One invocation of insert_non_full: the node it is given and its offset.
Call(node, node_offset) == [node |-> node, offset |-> node_offset]

\* BTree::insert_non_full(node, node_offset, kv): [res, d, calls], calls the
\* invocations of insert_non_full from this one down, in order.
RECURSIVE InsertNonFull(_, _, _, _, _)
InsertNonFull(d, node, node_offset, kv, b) ==
    Let(<<Call(node, node_offset)>>, LAMBDA me :
    IF node.node_type = "Leaf"
    THEN Let(BinarySearch(PairKeys(node.pairs), kv.key).idx, LAMBDA idx :
         Let(WriteNodeAt(d, [node EXCEPT !.pairs = VecInsert(node.pairs, idx, kv)],
                         node_offset), LAMBDA w :
         [res |-> w.res, d |-> w.d, calls |-> me]))
    ELSE Let(BinarySearch(node.keys, kv.key).idx, LAMBDA idx :
         IF idx >= Len(node.children)
         THEN [res |-> "UnexpectedError", d |-> d, calls |-> me]
         ELSE
         Let(node.children[idx + 1], LAMBDA child_offset :
         Let(ReadNode(d, child_offset), LAMBDA rc :
         IF rc.res # "ok" THEN [res |-> rc.res, d |-> d, calls |-> me]
         ELSE IF ~IsNodeFull(rc.node, b)
         THEN Let(InsertNonFull(d, rc.node, child_offset, kv, b), LAMBDA r :
              [r EXCEPT !.calls = me \o @])
         ELSE
         Let(Split(rc.node, b), LAMBDA sp :
         Let(WriteSplitChild(d, sp.left, child_offset), LAMBDA w1 :
         IF w1.res # "ok" THEN [res |-> w1.res, d |-> w1.d, calls |-> me]
         ELSE
         Let(WriteNode(w1.d, sp.sibling), LAMBDA w2 :
         IF w2.res # "ok" THEN [res |-> w2.res, d |-> w2.d, calls |-> me]
         ELSE
         Let(SplitParent(node, idx, w2.off, sp.median), LAMBDA parent :
         Let(WriteSplitParent(w2.d, parent, node_offset), LAMBDA w3 :
         IF w3.res # "ok" THEN [res |-> w3.res, d |-> w3.d, calls |-> me]
         ELSE IF StrLeq(kv.key, sp.median)
         THEN Let(InsertNonFull(w3.d, sp.left, child_offset, kv, b), LAMBDA r :
              [r EXCEPT !.calls = me \o @])
         ELSE Let(InsertNonFull(w3.d, sp.sibling, w2.off, kv, b), LAMBDA r :
              [r EXCEPT !.calls = me \o @]))))))))))

\* A new root that lists the sibling before the old root.
NewRootSiblingFirst(old_root_offset, sibling_offset, median) ==
    InternalNode(<<sibling_offset, old_root_offset>>, <<median>>, TRUE, None)

\* insert: the new root after the split of the old one, the old root left of
\* the sibling and the median between them.
NewRoot(old_root_offset, sibling_offset, median) ==
    InternalNode(<<old_root_offset, sibling_offset>>, <<median>>, TRUE, None)

\* BTree::insert(kv): [res, d, root, calls], root the root_offset field
\* afterwards and calls the invocations of insert_non_full.  The field is
\* assigned as soon as the new root page has been allocated.
Insert(file, root_offset, kv, b) ==
    Let(Disk(file), LAMBDA d0 :
    Let(ReadNode(d0, root_offset), LAMBDA rr :
    IF rr.res # "ok" THEN [res |-> rr.res, d |-> d0, root |-> root_offset, calls |-> <<>>]
    ELSE IF ~IsNodeFull(rr.node, b)
    THEN Let(InsertNonFull(d0, rr.node, root_offset, kv, b), LAMBDA r :
         [res |-> r.res, d |-> r.d, root |-> root_offset, calls |-> r.calls])
    ELSE
    Let(WriteNode(d0, InternalNode(<<>>, <<>>, TRUE, None)), LAMBDA w1 :
    IF w1.res # "ok" THEN [res |-> w1.res, d |-> w1.d, root |-> root_offset, calls |-> <<>>]
    ELSE
    Let(w1.off, LAMBDA new_root_offset :
    Let(Split([rr.node EXCEPT !.parent_offset = Some(new_root_offset),
                              !.is_root = FALSE], b), LAMBDA sp :
    Let(WriteNodeAt(w1.d, sp.left, root_offset), LAMBDA w2 :
    IF w2.res # "ok" THEN [res |-> w2.res, d |-> w2.d, root |-> new_root_offset,
          calls |-> <<>>]
    ELSE
    Let(WriteNode(w2.d, sp.sibling), LAMBDA w3 :
    IF w3.res # "ok" THEN [res |-> w3.res, d |-> w3.d, root |-> new_root_offset,
          calls |-> <<>>]
    ELSE
    Let(NewRoot(root_offset, w3.off, sp.median), LAMBDA new_root :
    Let(WriteNodeAt(w3.d, new_root, new_root_offset), LAMBDA w4 :
    IF w4.res # "ok" THEN [res |-> w4.res, d |-> w4.d, root |-> new_root_offset,
          calls |-> <<>>]
    ELSE
    Let(InsertNonFull(w4.d, new_root, new_root_offset, kv, b), LAMBDA r :
    [res |-> r.res, d |-> r.d, root |-> new_root_offset, calls |-> r.calls]))))))))))

\* A descent that passes a separator equal to the key: the first index whose
\* separator is greater than the key.
ChildIndexPastEqual(keys, key) ==
    Let(BinarySearch(keys, key), LAMBDA bs : IF bs.found THEN bs.idx + 1 ELSE bs.idx)

\* search_node at an Internal node: the 0-based index of the child to descend
\* into, keys.binary_search(key).unwrap_or_else(|x| x).
ChildIndex(keys, key) == BinarySearch(keys, key).idx

\* BTree::search_node(node, key): [res, pair].
RECURSIVE SearchNode(_, _, _)
SearchNode(file, node, key) ==
    IF node.node_type = "Internal"
    THEN Let(ChildIndex(node.keys, key), LAMBDA idx :
         IF idx >= Len(node.children) THEN [res |-> "UnexpectedError"]
         ELSE Let(ReadNode(Disk(file), node.children[idx + 1]), LAMBDA rc :
              IF rc.res # "ok" THEN [res |-> rc.res]
              ELSE SearchNode(file, rc.node, key)))
    ELSE Let(BinarySearch(PairKeys(node.pairs), key), LAMBDA bs :
         IF bs.found THEN [res |-> "ok", pair |-> node.pairs[bs.idx + 1]]
         ELSE [res |-> "KeyNotFound"])

\* BTree::search(key)
Search(file, root_offset, key) ==
    Let(ReadNode(Disk(file), root_offset), LAMBDA rr :
    IF rr.res # "ok" THEN [res |-> rr.res] ELSE SearchNode(file, rr.node, key))

\* BTree::merge(first, second)
Merge(first, second) ==
    IF first.node_type # second.node_type THEN [res |-> "UnexpectedError"]
    ELSE IF first.node_type = "Leaf"
    THEN [res |-> "ok",
          node |-> LeafNode(first.pairs \o second.pairs, first.is_root, first.parent_offset)]
    ELSE [res |-> "ok",
          node |-> InternalNode(first.children \o second.children,
                                first.keys \o second.keys,
                                first.is_root, first.parent_offset)]

\* The two merged children removed and the merged node never linked.
MergedChildrenNotLinked(children, idx, sibling_idx, merged_node_offset) ==
    VecRemove(VecRemove(children, idx), sibling_idx)

\* borrow_if_needed: the children of the parent after a merge.  The node and
\* its sibling are removed, in this order, each by its index in the vector as
\* it then is, and the merged node is inserted at the smaller index.
MergedChildren(children, idx, sibling_idx, merged_node_offset) ==
    VecInsert(VecRemove(VecRemove(children, idx), sibling_idx),
              IF idx < sibling_idx THEN idx ELSE sibling_idx, merged_node_offset)

\* BTree::borrow_if_needed(node, key): [res, d].  Vec::remove and Vec::insert
\* panic on an index out of bounds.
RECURSIVE BorrowIfNeeded(_, _, _, _)
BorrowIfNeeded(d, node, key, b) ==
    IF ~IsNodeUnderflow(node, b) THEN [res |-> "ok", d |-> d]
    ELSE IF node.parent_offset = None THEN [res |-> "UnexpectedError", d |-> d]
    ELSE
    Let(node.parent_offset[1], LAMBDA parent_offset :
    Let(ReadNode(d, parent_offset), LAMBDA rp :
    IF rp.res # "ok" THEN [res |-> rp.res, d |-> d]
    ELSE IF rp.node.node_type # "Internal" THEN [res |-> "UnexpectedError", d |-> d]
    ELSE
    Let(rp.node.children, LAMBDA children :
    Let(BinarySearch(rp.node.keys, key).idx, LAMBDA idx :
    Let(IF idx > 0 THEN idx - 1 ELSE idx + 1, LAMBDA sibling_idx :
    IF sibling_idx >= Len(children) THEN [res |-> "UnexpectedError", d |-> d]
    ELSE
    Let(ReadNode(d, children[sibling_idx + 1]), LAMBDA rs :
    IF rs.res # "ok" THEN [res |-> rs.res, d |-> d]
    ELSE
    Let(Merge(node, rs.node), LAMBDA m :
    IF m.res # "ok" THEN [res |-> m.res, d |-> d]
    ELSE
    Let(WriteNode(d, m.node), LAMBDA w1 :
    Let(IF idx < sibling_idx THEN idx ELSE sibling_idx, LAMBDA merged_node_idx :
    IF w1.res # "ok" THEN [res |-> w1.res, d |-> w1.d]
    ELSE IF idx >= Len(children) THEN [res |-> "panic", d |-> w1.d]
    ELSE IF sibling_idx >= Len(children) - 1 THEN [res |-> "panic", d |-> w1.d]
    ELSE IF merged_node_idx > Len(children) - 2 THEN [res |-> "panic", d |-> w1.d]
    ELSE
    Let([rp.node EXCEPT !.children =
            MergedChildren(children, idx, sibling_idx, w1.off)], LAMBDA parent_node :
    Let(WriteNodeAt(w1.d, parent_node, parent_offset), LAMBDA w2 :
    IF w2.res # "ok" THEN [res |-> w2.res, d |-> w2.d]
    ELSE BorrowIfNeeded(w2.d, parent_node, key, b))))))))))))

\* BTree::delete_key_from_subtree(key, offset): [res, d].
RECURSIVE DeleteKeyFromSubtree(_, _, _, _)
DeleteKeyFromSubtree(d, key, offset, b) ==
    Let(ReadNode(d, offset), LAMBDA rn :
    IF rn.res # "ok" THEN [res |-> rn.res, d |-> d]
    ELSE IF rn.node.node_type = "Leaf"
    THEN Let(BinarySearch(PairKeys(rn.node.pairs), key), LAMBDA bs :
         IF ~bs.found THEN [res |-> "KeyNotFound", d |-> d]
         ELSE
         Let([rn.node EXCEPT !.pairs = VecRemove(rn.node.pairs, bs.idx)], LAMBDA node :
         Let(WriteNodeAt(d, node, offset), LAMBDA w :
         IF w.res # "ok" THEN [res |-> w.res, d |-> w.d]
         ELSE BorrowIfNeeded(w.d, node, key, b))))
    ELSE Let(BinarySearch(rn.node.keys, key).idx, LAMBDA node_idx :
         IF node_idx >= Len(rn.node.children) THEN [res |-> "UnexpectedError", d |-> d]
         ELSE DeleteKeyFromSubtree(d, key, rn.node.children[node_idx + 1], b)))

\* A delete that reports a key it did not find as removed.
DeleteHidingKeyNotFound(file, root_offset, key, b) ==
    Let(DeleteKeyFromSubtree(Disk(file), key, root_offset, b), LAMBDA r :
    [res |-> IF r.res = "KeyNotFound" THEN "ok" ELSE r.res,
     d |-> r.d, root |-> root_offset])

\* BTree::delete(key): [res, d, root].
Delete(file, root_offset, key, b) ==
    Let(DeleteKeyFromSubtree(Disk(file), key, root_offset, b), LAMBDA r :
    [res |-> r.res, d |-> r.d, root |-> root_offset])

\* ------------------------------------------------------------------------
\* Wal (src/src/wal.rs): the root log is a file of bytes, a sequence of
\* records of PTR_SIZE bytes, each a root offset as a big-endian integer.

\* usize::to_be_bytes, the n low-order bytes, most significant first.
RECURSIVE ToBeBytes(_, _)
ToBeBytes(x, n) ==
    IF n = 0 THEN <<>> ELSE Append(ToBeBytes(x \div 256, n - 1), x % 256)

\* usize::from_be_bytes.
RECURSIVE FromBeBytes(_)
FromBeBytes(bytes) ==
    IF Len(bytes) = 0 THEN 0
    ELSE FromBeBytes(SubSeq(bytes, 1, Len(bytes) - 1)) * 256 + bytes[Len(bytes)]

\* A read of the first record of the log.
GetFirstRoot(w) ==
    IF PTR_SIZE > Len(w) THEN [res |-> "UnexpectedError"]
    ELSE [res |-> "ok", offset |-> FromBeBytes(SubSeq(w, 1, PTR_SIZE))]

\* Wal::get_root: seek to the start of the last record (to 0 in an empty
\* file) and read PTR_SIZE bytes exactly; a short read is an io error.
GetRoot(w) ==
    Let(IF Len(w) > 0 THEN (Len(w) \div PTR_SIZE - 1) * PTR_SIZE ELSE 0, LAMBDA pos :
        IF pos + PTR_SIZE > Len(w) THEN [res |-> "UnexpectedError"]
        ELSE [res |-> "ok",
              offset |-> FromBeBytes(SubSeq(w, pos + 1, pos + PTR_SIZE))])

\* Wal::set_root(offset): seek to the end and write the PTR_SIZE bytes.
SetRoot(w, offset) == w \o ToBeBytes(offset, PTR_SIZE)

\* ------------------------------------------------------------------------
\* The state machine.
\*
\*   b            BTree.b
\*   file         the index file, a sequence of pages
\*   root_offset  BTree.root_offset
\*   wal          the root log file, a sequence of bytes
\*   status       "running", or "aborted" once an operation has panicked or
\*                has been interrupted: the BTree value is gone and only a
\*                new build against the same path can follow
\*   builds       the number of builds so far
\*   steps        the number of inserts and deletes issued since the last build
\*   op           the last build, insert or delete, and its result
\*   live         the pairs the caller has stored since the last build:
\*                inserted with result ok and not deleted with result ok since
\*   clean        no delete has been issued: the history is one of inserts of
\*                distinct keys into a freshly built tree

VARIABLES b, file, root_offset, wal, status, builds, steps, op, live, clean

vars == <<b, file, root_offset, wal, status, builds, steps, op, live, clean>>

KeysUpTo(n) == {<<i>> : i \in 1..n}

Keys == KeysUpTo(2 * b + MaxExtra)

\* The value the callers store with every key.
Values == {<<1>>}

Bs == 2..MaxB

LiveKeys == {p.key : p \in live}

EmptyRootPage == PageOfNode(LeafNode(<<>>, TRUE, None)).page

OpRecord(name, res) == [name |-> name, res |-> res]

\* The file after the first j writes of a log.
RECURSIVE ApplyWrites(_, _, _)
ApplyWrites(f, log, j) ==
    IF j = 0 THEN f
    ELSE Let(ApplyWrites(f, log, j - 1), LAMBDA g :
         IF log[j][1] = Len(g) * PAGE_SIZE THEN Append(g, log[j][2])
         ELSE [g EXCEPT ![log[j][1] \div PAGE_SIZE + 1] = log[j][2]])

\* BTreeBuilder::build on a fresh path.
InitWith(bs) ==
    /\ b \in bs
    /\ file = <<EmptyRootPage>>
    /\ root_offset = 0
    /\ wal = <<>>
    /\ status = "running"
    /\ builds = 1
    /\ steps = 0
    /\ op = OpRecord("build", "ok")
    /\ live = {}
    /\ clean = TRUE

Init == InitWith(Bs)

\* BTreeBuilder::build against the path of an existing index: the pager opens
\* the file as it is and a fresh empty root is appended.
Build ==
    /\ builds < MaxBuilds
    /\ file' = Append(file, EmptyRootPage)
    /\ root_offset' = Len(file) * PAGE_SIZE
    /\ status' = "running"
    /\ builds' = builds + 1
    /\ steps' = 0
    /\ op' = OpRecord("build", "ok")
    /\ UNCHANGED <<b, wal, live, clean>>

\* The callers of the general specification insert a key they have not stored.
InsertOp(k, v) ==
    /\ status = "running"
    /\ k \notin LiveKeys
    /\ steps' = steps + 1
    /\ \E r \in {Insert(file, root_offset, KeyValuePair(k, v), b)} :
           /\ file' = r.d.file
           /\ root_offset' = r.root
           /\ status' = IF r.res = "panic" THEN "aborted" ELSE "running"
           /\ op' = OpRecord("insert", r.res)
           /\ live' = IF r.res = "ok" THEN live \cup {KeyValuePair(k, v)} ELSE live
    /\ UNCHANGED <<b, wal, builds, clean>>

\* BTree::search reads pages and returns its result; nothing is written.
SearchOp(k) ==
    /\ status = "running"
    /\ Search(file, root_offset, k).res \in {"ok", "KeyNotFound", "UnexpectedError"}
    /\ UNCHANGED vars

DeleteOp(k) ==
    /\ status = "running"
    /\ steps' = steps + 1
    /\ \E r \in {Delete(file, root_offset, k, b)} :
           /\ file' = r.d.file
           /\ root_offset' = r.root
           /\ status' = IF r.res = "panic" THEN "aborted" ELSE "running"
           /\ op' = OpRecord("delete", r.res)
           /\ live' = IF r.res = "ok" THEN {p \in live : p.key # k} ELSE live
    /\ clean' = FALSE
    /\ UNCHANGED <<b, wal, builds>>

\* An insert interrupted after j of its page writes, at least one write before
\* its last; the root offset is the one in effect when the operation began.
InsertInterrupted(k, v) ==
    /\ status = "running"
    /\ steps' = steps + 1
    /\ \E r \in {Insert(file, root_offset, KeyValuePair(k, v), b)} :
           \E j \in 1..(Len(r.d.log) - 1) :
               file' = ApplyWrites(file, r.d.log, j)
    /\ status' = "aborted"
    /\ op' = OpRecord("insert", "interrupted")
    /\ UNCHANGED <<b, root_offset, wal, builds, live, clean>>

DeleteInterrupted(k) ==
    /\ status = "running"
    /\ steps' = steps + 1
    /\ \E r \in {Delete(file, root_offset, k, b)} :
           \E j \in 1..(Len(r.d.log) - 1) :
               file' = ApplyWrites(file, r.d.log, j)
    /\ status' = "aborted"
    /\ op' = OpRecord("delete", "interrupted")
    /\ UNCHANGED <<b, root_offset, wal, builds, live, clean>>

\* The general specification: inserts, searches and deletes on one engine.
Next ==
    \/ \E k \in Keys, v \in Values : steps < MaxSteps /\ InsertOp(k, v)
    \/ \E k \in Keys : SearchOp(k)
    \/ \E k \in Keys : steps < MaxSteps /\ DeleteOp(k)

Spec == Init /\ [][Next]_vars

\* ------------------------------------------------------------------------
\* The default engine: BTreeBuilder::default().build(), b = DEFAULT_B.  The
\* caller stores the keys <<1>>, <<2>>, ... in ascending order.

InitDefault == InitWith({DEFAULT_B})

InsertAscending ==
    /\ steps < MaxAscending
    /\ \E v \in Values : InsertOp(<<steps + 1>>, v)

NextDefault == InsertAscending

SpecDefault == InitDefault /\ [][NextDefault]_vars

\* ------------------------------------------------------------------------
\* Reopening: the caller inserts, then builds the engine again against the
\* same paths and goes on.

NextReopen ==
    \/ \E k \in Keys, v \in Values : steps < MaxSteps /\ InsertOp(k, v)
    \/ \E k \in Keys : SearchOp(k)
    \/ Build

SpecReopen == Init /\ [][NextReopen]_vars

\* ------------------------------------------------------------------------
\* Interruption: an insert or a delete may stop between two of its page
\* writes; the engine is gone and the file stays as the writes left it.

NextCrash ==
    \/ \E k \in Keys, v \in Values : steps < MaxSteps /\ InsertOp(k, v)
    \/ \E k \in Keys : SearchOp(k)
    \/ \E k \in Keys : steps < MaxSteps /\ DeleteOp(k)
    \/ \E k \in Keys, v \in Values : steps < MaxSteps /\ InsertInterrupted(k, v)
    \/ \E k \in Keys : steps < MaxSteps /\ DeleteInterrupted(k)

SpecCrash == Init /\ [][NextCrash]_vars

\* ------------------------------------------------------------------------
\* Oversized keys: the caller also inserts keys of KEY_SIZE + 1 bytes, a key
\* of Keys followed by KEY_SIZE more bytes.

LongKey(k) == k \o [i \in 1..KEY_SIZE |-> 1]

InsertLong(k, v) == InsertOp(LongKey(k), v)

NextOverflow ==
    \/ \E k \in Keys, v \in Values : steps < MaxSteps /\ InsertOp(k, v)
    \/ \E k \in Keys : SearchOp(k)
    \/ \E k \in Keys : steps < MaxSteps /\ DeleteOp(k)
    \/ \E k \in Keys, v \in Values : steps < MaxSteps /\ InsertLong(k, v)

SpecOverflow == Init /\ [][NextOverflow]_vars

\* ------------------------------------------------------------------------
\* Serialization on its own: a node is encoded to a page, the page is written
\* over the root page and read back, as the tests of src/src/page.rs do with
\* Page::try_from(&node) and Node::try_from(page).

\* The most pairs a Leaf page holds and the most separators an Internal page
\* holds next to their children.
LeafCapacity == (PAGE_SIZE - LEAF_NODE_HEADER_SIZE) \div (KEY_SIZE + VALUE_SIZE)

InternalCapacity ==
    (PAGE_SIZE - INTERNAL_NODE_HEADER_SIZE - PTR_SIZE) \div (PTR_SIZE + KEY_SIZE)

\* Keys and values with valid contents: no zero byte, at most KEY_SIZE bytes.
CodecKeys == {<<1>>, [i \in 1..KEY_SIZE |-> i]}

CodecValues == {<<2>>, [i \in 1..VALUE_SIZE |-> 255]}

CodecOffsets == {0, PAGE_SIZE}

\* Root nodes have no parent, the others have a parent offset.
CodecParents == {[is_root |-> TRUE, parent_offset |-> None],
                 [is_root |-> FALSE, parent_offset |-> Some(PAGE_SIZE)]}

SeqsOfLen(S, n) == [1..n -> S]

\* The i-th of a run of distinct two-byte keys.
NthKey(i) == <<(i \div 255) + 1, (i % 255) + 1>>

CodecLeafPairs ==
    UNION {SeqsOfLen({KeyValuePair(k, v) : k \in CodecKeys, v \in CodecValues}, n) :
               n \in 0..MaxNodeLen}
    \cup {[i \in 1..n |-> KeyValuePair(NthKey(i), <<2>>)] :
               n \in {LeafCapacity, LeafCapacity + 1}}

\* Internal nodes: k separators and k + 1 children.
CodecInternals ==
    UNION {SeqsOfLen(CodecOffsets, n + 1) \X SeqsOfLen(CodecKeys, n) :
               n \in 0..MaxNodeLen}
    \cup {<<[i \in 1..(n + 1) |-> i * PAGE_SIZE],
            [i \in 1..n |-> NthKey(i)]>> :
               n \in {InternalCapacity, InternalCapacity + 1}}

CodecNodes ==
    {LeafNode(ps, p.is_root, p.parent_offset) :
         ps \in CodecLeafPairs, p \in CodecParents}
    \cup {InternalNode(ck[1], ck[2], p.is_root, p.parent_offset) :
              ck \in CodecInternals, p \in CodecParents}

\* The node fits a page: the encoder writes no slot beyond PAGE_SIZE.
FitsPage(n) ==
    IF n.node_type = "Leaf" THEN Len(n.pairs) <= LeafCapacity
    ELSE Len(n.keys) <= InternalCapacity

EncodeOp(n) ==
    /\ status = "running"
    /\ \E w \in {WriteNodeAt(Disk(file), n, root_offset)} :
           /\ file' = w.d.file
           /\ status' = IF w.res = "panic" THEN "aborted" ELSE "running"
           /\ op' = [name |-> "encode", res |-> w.res, node |-> n]
    /\ UNCHANGED <<b, root_offset, wal, builds, steps, live, clean>>

InitCodec == InitWith({DEFAULT_B})

NextCodec == \E n \in CodecNodes : EncodeOp(n)

SpecCodec == InitCodec /\ [][NextCodec]_vars

\* ------------------------------------------------------------------------
\* The root log on its own: a caller records root offsets with set_root and
\* reads the current one with get_root.  root_offset is the offset the caller
\* recorded last.

WalOffsets == {0, PAGE_SIZE, 2 * PAGE_SIZE, PAGE_SIZE * PAGE_SIZE}

SetRootOp(offset) ==
    /\ status = "running"
    /\ Len(wal) < MaxRecords * PTR_SIZE
    /\ wal' = SetRoot(wal, offset)
    /\ root_offset' = offset
    /\ op' = OpRecord("set_root", "ok")
    /\ UNCHANGED <<b, file, status, builds, steps, live, clean>>

GetRootOp ==
    /\ status = "running"
    /\ \E r \in {GetRoot(wal)} :
           op' = IF r.res = "ok"
                 THEN [name |-> "get_root", res |-> "ok", offset |-> r.offset]
                 ELSE OpRecord("get_root", r.res)
    /\ UNCHANGED <<b, file, root_offset, wal, status, builds, steps, live, clean>>

InitWal == InitWith({DEFAULT_B})

NextWal ==
    \/ \E offset \in WalOffsets : SetRootOp(offset)
    \/ GetRootOp

SpecWal == InitWal /\ [][NextWal]_vars

\* ------------------------------------------------------------------------
\* A deep tree: the caller loads the keys <<1>>..<<LoadSize>> in ascending
\* order, as tests::insert_works does with b = 2, which grows the tree to three
\* levels, and then issues inserts and deletes in any order.

\* The first ascending insert that splits an Internal root: the root leaf
\* splits at insert 2b, every b inserts after that split the rightmost leaf,
\* and the insert after the root has 2b children splits the root.
LoadSize == 2 * b * b + 1

DeepKeys == {<<i>> : i \in (LoadSize - MaxTouched + 1)..(LoadSize + 1)}

InitDeep == InitWith(2..MaxDeepB)

LoadAscending ==
    /\ steps < LoadSize
    /\ \E v \in Values : InsertOp(<<steps + 1>>, v)

MixedInsert(k, v) ==
    /\ steps >= LoadSize
    /\ steps < LoadSize + MaxMixed
    /\ InsertOp(k, v)

MixedDelete(k) ==
    /\ steps >= LoadSize
    /\ steps < LoadSize + MaxMixed
    /\ DeleteOp(k)

NextDeep ==
    \/ LoadAscending
    \/ \E k \in DeepKeys, v \in Values : MixedInsert(k, v)
    \/ \E k \in DeepKeys : MixedDelete(k)
    \/ \E k \in DeepKeys : SearchOp(k)

SpecDeep == InitDeep /\ [][NextDeep]_vars

\* ------------------------------------------------------------------------
\* The tree as it is read back from the file, walked as BTree::print_sub_tree
\* walks it: the node at an offset, then the subtrees of its children in
\* order.  A page that cannot be read ends the walk of its subtree; fuel
\* bounds the depth of the walk by the number of pages.

\* The nodes reachable from off: [offset, depth, node].
RECURSIVE SubTree(_, _, _, _)
SubTree(f, off, depth, fuel) ==
    Let(ReadNode(Disk(f), off), LAMBDA rn :
        IF rn.res # "ok" THEN {}
        ELSE {[offset |-> off, depth |-> depth, node |-> rn.node]} \cup
             (IF rn.node.node_type = "Internal" /\ fuel > 0
              THEN UNION {SubTree(f, rn.node.children[i], depth + 1, fuel - 1) :
                              i \in 1..Len(rn.node.children)}
              ELSE {}))

TreeNodes(f, root) == SubTree(f, root, 0, Len(f))

\* The keys of the leaves below off, left to right, in stored order.
RECURSIVE SubTreeKeys(_, _, _)
RECURSIVE ChildrenKeys(_, _, _, _)
SubTreeKeys(f, off, fuel) ==
    Let(ReadNode(Disk(f), off), LAMBDA rn :
        IF rn.res # "ok" THEN <<>>
        ELSE IF rn.node.node_type = "Leaf" THEN PairKeys(rn.node.pairs)
        ELSE IF fuel > 0 THEN ChildrenKeys(f, rn.node.children, 1, fuel - 1)
        ELSE <<>>)

ChildrenKeys(f, children, i, fuel) ==
    IF i > Len(children) THEN <<>>
    ELSE SubTreeKeys(f, children[i], fuel) \o ChildrenKeys(f, children, i + 1, fuel)

TreeKeys(f, root) == SubTreeKeys(f, root, Len(f))

\* The pairs of the leaves below off, left to right, in stored order.
RECURSIVE SubTreePairs(_, _, _)
RECURSIVE ChildrenPairs(_, _, _, _)
SubTreePairs(f, off, fuel) ==
    Let(ReadNode(Disk(f), off), LAMBDA rn :
        IF rn.res # "ok" THEN <<>>
        ELSE IF rn.node.node_type = "Leaf" THEN rn.node.pairs
        ELSE IF fuel > 0 THEN ChildrenPairs(f, rn.node.children, 1, fuel - 1)
        ELSE <<>>)

ChildrenPairs(f, children, i, fuel) ==
    IF i > Len(children) THEN <<>>
    ELSE SubTreePairs(f, children[i], fuel) \o ChildrenPairs(f, children, i + 1, fuel)

TreePairs(f, root) == SubTreePairs(f, root, Len(f))

\* ------------------------------------------------------------------------
\* Duplicate keys: the caller stores keys in ascending order and also inserts
\* keys it has stored already, with another value.

DupValues == {<<2>>}

InsertDupOp(k, v) ==
    /\ status = "running"
    /\ k \in LiveKeys
    /\ Len(TreePairs(file, root_offset)) - Cardinality(LiveKeys) < MaxDups
    /\ steps' = steps + 1
    /\ \E r \in {Insert(file, root_offset, KeyValuePair(k, v), b)} :
           /\ file' = r.d.file
           /\ root_offset' = r.root
           /\ status' = IF r.res = "panic" THEN "aborted" ELSE "running"
           /\ op' = OpRecord("insert", r.res)
           /\ live' = IF r.res = "ok" THEN live \cup {KeyValuePair(k, v)} ELSE live
    /\ UNCHANGED <<b, wal, builds, clean>>

\* The next key the caller has not stored, in ascending order.
InsertNewOp(v) ==
    /\ <<Cardinality(LiveKeys) + 1>> \in Keys
    /\ InsertOp(<<Cardinality(LiveKeys) + 1>>, v)

NextDup ==
    \/ \E v \in Values : steps < MaxSteps /\ InsertNewOp(v)
    \/ \E k \in Keys, v \in DupValues : steps < MaxSteps /\ InsertDupOp(k, v)
    \/ \E k \in Keys : SearchOp(k)

SpecDup == Init /\ [][NextDup]_vars

\* ------------------------------------------------------------------------
\* C1: for any b >= 2, inserting distinct keys that fit the key size limit, in
\* any order, into a freshly built tree returns success for every insert, and
\* a search for each key inserted returns the pair that was inserted.
C1_InsertedKeysFound ==
    (builds = 1 /\ clean /\ op.name = "insert") =>
        /\ op.res = "ok"
        /\ \A p \in live : Search(file, root_offset, p.key) = [res |-> "ok", pair |-> p]

\* ------------------------------------------------------------------------
\* C2: on any tree reached by inserts and deletes that does not contain key k,
\* insert(k, v) followed by delete(k) both return ok, and a following
\* search(k) fails with KeyNotFound.
C2_InsertDeleteSearch ==
    \A k \in Keys, v \in Values :
        (/\ status = "running"
         /\ k \notin LiveKeys
         /\ Search(file, root_offset, k).res = "KeyNotFound") =>
            \A i \in {Insert(file, root_offset, KeyValuePair(k, v), b)} :
                /\ i.res = "ok"
                /\ \A d \in {Delete(i.d.file, i.root, k, b)} :
                       /\ d.res = "ok"
                       /\ Search(d.d.file, d.root, k).res = "KeyNotFound"

\* ------------------------------------------------------------------------
\* C3: a successful delete(k) removes only k: every other key that search
\* found before the delete is still found afterwards with the same value, on
\* every tree reachable by inserts and deletes, also when the delete makes a
\* leaf underflow and merge with a sibling (leftmost, middle or rightmost).
C3_DeleteKeepsOtherKeys ==
    \A k \in Keys :
        status = "running" =>
            \A d \in {Delete(file, root_offset, k, b)} :
                d.res = "ok" =>
                    \A k2 \in Keys \ {k} :
                        \A s \in {Search(file, root_offset, k2)} :
                            s.res = "ok" => Search(d.d.file, d.root, k2) = s

\* ------------------------------------------------------------------------
\* C4: after N successful inserts, building the engine again against the same
\* index and wal paths yields a tree in which every key inserted before is
\* still found by search, with its value.
C4_ReopenKeepsKeys ==
    (op.name = "build" /\ builds > 1) =>
        \A p \in live : Search(file, root_offset, p.key) = [res |-> "ok", pair |-> p]

\* ------------------------------------------------------------------------
\* C5: when an insert or a delete is interrupted between two of its page
\* writes, before a new root offset has been recorded, the tree read from the
\* root recorded before still holds every pair it held when the operation
\* began: the pages the operation wrote are at most unreachable orphans.
C5_InterruptKeepsPriorTree ==
    [][op'.res = "interrupted" =>
          \A k \in Keys :
              \A s \in {Search(file, root_offset, k)} :
                  s.res = "ok" => Search(file', root_offset', k) = s]_vars

\* ------------------------------------------------------------------------
\* C6: each completed insert or delete appends exactly one root offset record
\* to the wal, after its page writes: the root offset in effect after the
\* operation.
C6_OneWalRecordPerOperation ==
    [][(steps' = steps + 1 /\ op'.res = "ok") => wal' = SetRoot(wal, root_offset')]_vars

\* ------------------------------------------------------------------------
\* C7: after every completed insert or delete, every Internal node reachable
\* from the root, as read back from its page, has exactly one more child
\* offset than separators.
C7_ChildrenOneMoreThanSeparators ==
    status = "running" =>
        \A n \in TreeNodes(file, root_offset) :
            n.node.node_type = "Internal" =>
                Len(n.node.children) = Len(n.node.keys) + 1

\* A delete has merged two nodes of a tree of three levels: their pages are no
\* longer reachable, and the Internal parent that was rewritten is read back.
C7_Witness ==
    /\ status = "running"
    /\ op = OpRecord("delete", "ok")
    /\ \E ns \in {TreeNodes(file, root_offset)} :
           /\ Cardinality({n.offset : n \in ns}) < Len(file)
           /\ \E n \in ns : n.depth = 1 /\ n.node.node_type = "Internal"

\* ------------------------------------------------------------------------
\* C8: after every completed insert or delete, every non-root Leaf reachable
\* from the root holds between b-1 and 2b-1 pairs and every non-root Internal
\* node has between b and 2b children.
C8_NodeSizeBounds ==
    (status = "running" /\ op.res = "ok") =>
        \A n \in TreeNodes(file, root_offset) :
            n.depth > 0 =>
                IF n.node.node_type = "Leaf"
                THEN b - 1 <= Len(n.node.pairs) /\ Len(n.node.pairs) <= 2 * b - 1
                ELSE b <= Len(n.node.children) /\ Len(n.node.children) <= 2 * b

\* ------------------------------------------------------------------------
\* C9: after every completed insert or delete, all leaves reachable from the
\* root are at the same depth.
C9_LeavesAtSameDepth ==
    status = "running" =>
        \A n1, n2 \in TreeNodes(file, root_offset) :
            (n1.node.node_type = "Leaf" /\ n2.node.node_type = "Leaf") =>
                n1.depth = n2.depth

\* After the load has split the root Leaf and then the Internal root, and a
\* delete has merged two nodes, there are leaves two levels below the root.
C9_Witness ==
    /\ status = "running"
    /\ op = OpRecord("delete", "ok")
    /\ steps > LoadSize
    /\ \E ns \in {TreeNodes(file, root_offset)} :
           /\ Cardinality({n.offset : n \in ns}) < Len(file)
           /\ Cardinality({n \in ns : n.node.node_type = "Leaf" /\ n.depth = 2}) >= 2

\* ------------------------------------------------------------------------
\* C10: after every completed insert or delete, the leaves reachable from the
\* root, visited left to right, each read in stored order, yield keys in
\* strictly ascending order.
C10_InOrderKeysAscending ==
    (status = "running" /\ op.res = "ok") =>
        \A keys \in {TreeKeys(file, root_offset)} :
            \A i \in 1..(Len(keys) - 1) : StrLess(keys[i], keys[i + 1])

\* ------------------------------------------------------------------------
\* C11: after every completed insert or delete, every child offset stored in
\* an Internal node reachable from the root refers to a written page whose
\* decoded node is not a root and has that Internal node's offset as its
\* parent_offset.
C11_ChildrenPointToParent ==
    (status = "running" /\ op.res = "ok") =>
        \A n \in TreeNodes(file, root_offset) :
            n.node.node_type = "Internal" =>
                \A i \in 1..Len(n.node.children) :
                    \A rc \in {ReadNode(Disk(file), n.node.children[i])} :
                        /\ rc.res = "ok"
                        /\ ~rc.node.is_root
                        /\ rc.node.parent_offset = Some(n.offset)

\* ------------------------------------------------------------------------
\* C12: after every completed insert or delete, the root is either a Leaf
\* (possibly with no pairs) or an Internal node with at least 2 children; an
\* Internal root that merges leave with a single child is replaced by that
\* child, marked root.
C12_RootLeafOrTwoChildren ==
    (status = "running" /\ op.res = "ok") =>
        \A rr \in {ReadNode(Disk(file), root_offset)} :
            /\ rr.res = "ok"
            /\ rr.node.is_root
            /\ rr.node.node_type = "Internal" => Len(rr.node.children) >= 2

\* ------------------------------------------------------------------------
\* C13: insert of a pair whose key is longer than KEY_SIZE bytes fails with
\* the key overflow error and leaves the tree unchanged: the root offset and
\* the content of every page reachable from it are as before the call, also
\* when the root or a node on the descent path is full.
C13_LongKeyInsertLeavesTree ==
    [][\A k \in Keys, v \in Values :
          InsertLong(k, v) =>
              /\ op'.res = "KeyOverflowError"
              /\ root_offset' = root_offset
              /\ \A n \in TreeNodes(file, root_offset) :
                     PageAt(file', n.offset) = PageAt(file, n.offset)]_vars

\* ------------------------------------------------------------------------
\* C14: delete(k) for a key k that no leaf reachable from the root stores
\* returns KeyNotFound, writes no page and changes no root offset, so every
\* key found before the call is found after it with the same value (a search
\* reads nothing but the file and the root offset).
C14_DeleteOfAbsentKey ==
    status = "running" =>
        \A keys \in {TreeKeys(file, root_offset)} :
            \A k \in Keys :
                (\A j \in DOMAIN keys : keys[j] # k) =>
                    \A d \in {Delete(file, root_offset, k, b)} :
                        /\ d.res = "KeyNotFound"
                        /\ d.d.log = <<>>
                        /\ d.d.file = file
                        /\ d.root = root_offset

\* A delete of a key that is not stored has returned KeyNotFound on a tree
\* whose root is an Internal node that still holds pairs.
C14_Witness ==
    /\ status = "running"
    /\ op = OpRecord("delete", "KeyNotFound")
    /\ \E n \in TreeNodes(file, root_offset) : n.depth > 0 /\ Len(n.node.pairs) > 0

\* ------------------------------------------------------------------------
\* C15: for every node with valid field contents that fits a page, decoding
\* the page produced by encoding the node yields a node equal to it in
\* is_root, node kind and contents, and parent_offset.
C15_RoundTripOfNodesThatFit ==
    (op.name = "encode" /\ FitsPage(op.node)) =>
        /\ op.res = "ok"
        /\ ReadNode(Disk(file), root_offset) = [res |-> "ok", node |-> op.node]

\* C15 as stated: the same for every node with valid field contents.
C15_RoundTrip ==
    op.name = "encode" =>
        /\ op.res = "ok"
        /\ ReadNode(Disk(file), root_offset) = [res |-> "ok", node |-> op.node]

\* A Leaf that fills its page to the last slot has been encoded and read back.
C15_Witness ==
    /\ op.name = "encode"
    /\ op.res = "ok"
    /\ op.node.node_type = "Leaf"
    /\ Len(op.node.pairs) = LeafCapacity
    /\ ~op.node.is_root

\* ------------------------------------------------------------------------
\* C16: starting from a freshly built tree, the first 2b-1 inserts of distinct
\* keys leave the tree a single Leaf root with no split; the (2b)-th insert
\* triggers exactly one root split, after which the root is Internal, the
\* tree has height 2 and the root offset is that of the new root.
C16_RootSplitsAtInsert2b ==
    (builds = 1 /\ clean /\ steps >= 1 /\ steps <= 2 * b) =>
        /\ op = OpRecord("insert", "ok")
        /\ \A rr \in {ReadNode(Disk(file), root_offset)} :
               /\ rr.res = "ok"
               /\ rr.node.is_root
               /\ IF steps <= 2 * b - 1
                  THEN /\ root_offset = 0
                       /\ Len(file) = 1
                       /\ rr.node.node_type = "Leaf"
                       /\ Len(rr.node.pairs) = steps
                  ELSE /\ root_offset # 0
                       /\ Len(file) = 3
                       /\ rr.node.node_type = "Internal"
                       /\ Len(rr.node.children) = 2
                       /\ \A n \in TreeNodes(file, root_offset) :
                              n.depth = 1 <=> n.node.node_type = "Leaf"

\* ------------------------------------------------------------------------
\* C17: Wal.get_root fails when no record has ever been appended, and
\* otherwise returns the offset passed to the most recent set_root; set_root
\* only appends, earlier records are never changed, and get_root does not
\* change the log.
C17_WalRootIsLastRecord ==
    [][/\ op'.name = "get_root" =>
            /\ wal' = wal
            /\ IF Len(wal) = 0 THEN op'.res # "ok"
               ELSE op' = [name |-> "get_root", res |-> "ok", offset |-> root_offset]
       /\ op'.name = "set_root" =>
            /\ Len(wal') = Len(wal) + PTR_SIZE
            /\ SubSeq(wal', 1, Len(wal)) = wal
            /\ GetRoot(wal') = [res |-> "ok", offset |-> root_offset']]_vars

\* get_root has returned the last of several different records.
C17_Witness ==
    /\ op.name = "get_root"
    /\ op.res = "ok"
    /\ Len(wal) = MaxRecords * PTR_SIZE
    /\ op.offset = PAGE_SIZE * PAGE_SIZE
    /\ SubSeq(wal, 1, PTR_SIZE) # SubSeq(wal, Len(wal) - PTR_SIZE + 1, Len(wal))

C21_InsertNonFullOnNonFullNodes ==
    status = "running" =>
        \A k \in Keys, v \in Values :
            \A i \in {Insert(file, root_offset, KeyValuePair(k, v), b)} :
                /\ \A j \in DOMAIN i.calls :
                       /\ ~IsNodeFull(i.calls[j].node, b)
                       /\ IF i.calls[j].node.node_type = "Leaf"
                          THEN Len(i.calls[j].node.pairs) < 2 * b - 1
                          ELSE Len(i.calls[j].node.keys) < 2 * b - 1
                /\ i.res = "ok" =>
                       /\ i.calls # <<>>
                       /\ \A c \in {i.calls[Len(i.calls)]} :
                              /\ c.node.node_type = "Leaf"
                              /\ \A rl \in {ReadNode(i.d, c.offset)} :
                                     /\ rl.res = "ok"
                                     /\ rl.node.node_type = "Leaf"
                                     /\ Len(rl.node.pairs) = Len(c.node.pairs) + 1
                                     /\ Len(rl.node.pairs) <= 2 * b - 1

C24_MergeExactlyOnUnderflow ==
    status = "running" =>
        \A k \in Keys \cup DeepKeys :
            \A r \in {Delete(file, root_offset, k, b)} :
                r.d.log # <<>> =>
                    \A leaf \in {NodeOfPage(r.d.log[1][2])} :
                        /\ leaf.res = "ok"
                        /\ leaf.node.node_type = "Leaf"
                        /\ (Len(r.d.file) > Len(file)) <=>
                               (~leaf.node.is_root /\ Len(leaf.node.pairs) < b - 1)

\* ------------------------------------------------------------------------
\* C25: when a delete merges the leaf it underflowed, the merge takes an
\* immediate sibling of the leaf in its actual parent: with i the position of
\* the leaf's offset in the children of the node that links it, the leaf's
\* parent_offset names that node, the deleted key searched in its separators
\* gives i, and the merged node is made of the leaf and of children[i - 1]
\* if i > 0, of children[i + 1] if i = 0.
C25_MergeTakesImmediateSibling ==
    status = "running" =>
        \A k \in Keys \cup DeepKeys :
            \A r \in {Delete(file, root_offset, k, b)} :
                Len(r.d.file) > Len(file) =>
                    \A leaf \in {NodeOfPage(r.d.log[1][2]).node},
                       leaf_offset \in {r.d.log[1][1]},
                       merged \in {NodeOfPage(r.d.log[2][2]).node} :
                        \E n \in TreeNodes(file, root_offset) :
                            /\ n.node.node_type = "Internal"
                            /\ leaf.parent_offset = Some(n.offset)
                            /\ \E i \in DOMAIN n.node.children :
                                   /\ n.node.children[i] = leaf_offset
                                   /\ BinarySearch(n.node.keys, k).idx = i - 1
                                   /\ (IF i > 1 THEN i - 1 ELSE i + 1) \in
                                          DOMAIN n.node.children
                                   /\ \A rs \in {ReadNode(Disk(file),
                                          n.node.children[IF i > 1 THEN i - 1 ELSE i + 1])} :
                                          /\ rs.res = "ok"
                                          /\ rs.node.node_type = "Leaf"
                                          /\ merged.node_type = "Leaf"
                                          /\ merged.pairs = leaf.pairs \o rs.node.pairs

\* ------------------------------------------------------------------------
\* C26: the node a delete makes by merging the underflowing leaf with its
\* sibling holds the pairs of the left one of the two followed by the pairs
\* of the right one and takes is_root and parent_offset from the left one,
\* whichever of the two underflowed; its pairs are in ascending key order.
C26_MergedNodeIsLeftThenRight ==
    status = "running" =>
        \A k \in Keys \cup DeepKeys :
            \A r \in {Delete(file, root_offset, k, b)} :
                Len(r.d.file) > Len(file) =>
                    \A leaf \in {NodeOfPage(r.d.log[1][2]).node},
                       leaf_offset \in {r.d.log[1][1]},
                       merged \in {NodeOfPage(r.d.log[2][2]).node} :
                        \A n \in TreeNodes(file, root_offset) :
                            n.node.node_type = "Internal" =>
                            \A i \in DOMAIN n.node.children :
                                (/\ n.node.children[i] = leaf_offset
                                 /\ leaf.parent_offset = Some(n.offset)
                                 /\ BinarySearch(n.node.keys, k).idx = i - 1
                                 /\ Len(n.node.children) >= 2) =>
                                \A rs \in {ReadNode(Disk(file),
                                       n.node.children[IF i > 1 THEN i - 1 ELSE i + 1]).node} :
                                \A first \in {IF i > 1 THEN rs ELSE leaf},
                                   second \in {IF i > 1 THEN leaf ELSE rs} :
                                    /\ merged.node_type = "Leaf"
                                    /\ merged.pairs = first.pairs \o second.pairs
                                    /\ merged.is_root = first.is_root
                                    /\ merged.parent_offset = first.parent_offset
                                    /\ \A x \in 1..(Len(merged.pairs) - 1) :
                                           StrLess(merged.pairs[x].key,
                                                   merged.pairs[x + 1].key)

\* ------------------------------------------------------------------------
\* C27: the parent a delete writes back after a merge is the parent before
\* the merge with the entries of the underflowing leaf and of its sibling
\* removed, the merged node's fresh offset at the smaller of their two
\* indices, one separator removed and every other child in its place.
C27_ParentAfterMerge ==
    status = "running" =>
        \A k \in Keys \cup DeepKeys :
            \A r \in {Delete(file, root_offset, k, b)} :
                (Len(r.d.file) > Len(file) /\ r.res # "panic") =>
                    /\ Len(r.d.log) >= 3
                    /\ \A leaf_offset \in {r.d.log[1][1]},
                          merged_offset \in {r.d.log[2][1]},
                          before \in {ReadNode(Disk(file), r.d.log[3][1]).node},
                          after \in {NodeOfPage(r.d.log[3][2]).node} :
                       /\ merged_offset = Len(file) * PAGE_SIZE
                       /\ \E i \in DOMAIN before.children :
                              /\ before.children[i] = leaf_offset
                              /\ \A lo \in {IF i > 1 THEN i - 1 ELSE i} :
                                     /\ lo + 1 <= Len(before.children)
                                     /\ after.children =
                                            SubSeq(before.children, 1, lo - 1) \o
                                            <<merged_offset>> \o
                                            SubSeq(before.children, lo + 2,
                                                   Len(before.children))
                       /\ \E x \in DOMAIN before.keys :
                              after.keys = VecRemove(before.keys, x - 1)

\* ------------------------------------------------------------------------
\* C28: after every completed insert or delete the separators of every
\* Internal node reachable from the root partition its subtrees: every key
\* stored under child i is <= separator[i] when that separator exists and
\* > separator[i - 1] when that separator exists.
C28_SeparatorsPartitionSubtrees ==
    (status = "running" /\ op.name \in {"insert", "delete"} /\ op.res = "ok") =>
        \A n \in TreeNodes(file, root_offset) :
            n.node.node_type = "Internal" =>
                \A i \in DOMAIN n.node.children :
                    \A ks \in {SubTreeKeys(file, n.node.children[i], Len(file))} :
                        \A x \in DOMAIN ks :
                            /\ i <= Len(n.node.keys) => StrLeq(ks[x], n.node.keys[i])
                            /\ (i > 1 /\ i - 1 <= Len(n.node.keys)) =>
                                   StrLess(n.node.keys[i - 1], ks[x])

\* ------------------------------------------------------------------------
\* C29: on every tree reached from a fresh build by inserts and deletes,
\* every insert, search and delete returns to the caller, with ok or with an
\* error value, and never aborts.
C29_OperationsNeverAbort ==
    /\ status # "aborted"
    /\ op.res # "panic"
    /\ status = "running" =>
           \A k \in Keys :
               /\ Search(file, root_offset, k).res # "panic"
               /\ Delete(file, root_offset, k, b).res # "panic"
               /\ \A v \in Values :
                      Insert(file, root_offset, KeyValuePair(k, v), b).res # "panic"

\* ------------------------------------------------------------------------
\* C30: during one insert every page is written at most twice, and a page
\* that is written twice is one this insert has created or split: the new
\* root of a root split (appended empty, then overwritten with its children)
\* or a half of a split node that then receives the pair or the median of a
\* split child.  A page that existed and was not full is written at most
\* once.
C30_PagesWrittenAtMostTwice ==
    status = "running" =>
        \A k \in DeepKeys, v \in Values :
            \A i \in {Insert(file, root_offset, KeyValuePair(k, v), b)} :
                i.res = "ok" =>
                    /\ i.d.log # <<>>
                    /\ \A w \in DOMAIN i.d.log :
                           \A ws \in {{x \in DOMAIN i.d.log : i.d.log[x][1] = i.d.log[w][1]}} :
                               /\ Cardinality(ws) <= 2
                               /\ Cardinality(ws) = 2 =>
                                      \/ i.d.log[w][1] >= Len(file) * PAGE_SIZE
                                      \/ IsNodeFull(ReadNode(Disk(file), i.d.log[w][1]).node, b)

\* C30 as stated: during one insert every page the insert modifies is
\* written exactly once.
C30_PagesWrittenOnce ==
    status = "running" =>
        \A k \in DeepKeys, v \in Values :
            \A i \in {Insert(file, root_offset, KeyValuePair(k, v), b)} :
                i.res = "ok" =>
                    /\ i.d.log # <<>>
                    /\ \A w1, w2 \in DOMAIN i.d.log :
                           i.d.log[w1][1] = i.d.log[w2][1] => w1 = w2

\* The first insert into the tree loaded with b = 2 has split the full
\* rightmost leaf on the way down and put the pair into one of the halves:
\* the file has one page more than the seven of the loaded tree.
C30_Witness ==
    /\ status = "running"
    /\ op.name = "insert"
    /\ op.res = "ok"
    /\ b = 2
    /\ steps = LoadSize + 1
    /\ Len(file) = 8
    /\ Cardinality(LiveKeys) = LoadSize + 1

====
